---- MODULE Spec2Model ----
(***************************************************************************)
(* State machine of the CSV editor: the canonical table and undo/redo log  *)
(* kept by CSVEditor, the grid view kept by CSVTable, and the analysis     *)
(* request issued by AIModifier.                                           *)
(*                                                                         *)
(* The variables hold the state committed by the last React render.  An    *)
(* event handler reads the committed values (its closure) and its set...   *)
(* calls are batched, the last call on a state variable winning; one       *)
(* action is one such batch together with the commit that follows it.      *)
(* Passive effects (useEffect) run after the commit, in the step Effects.  *)
(* A callback that completes later (Papa.parse, the awaited analysis call) *)
(* keeps the closure of the render in which it was started.                *)
(*                                                                         *)
(* Indices (currentHistoryIndex, editingCell.row/.col, editingHeader) keep *)
(* the code's 0-based values; TLA+ sequences are 1-based, so history[i]    *)
(* of the code is history[i + 1] here.                                     *)
(***************************************************************************)
EXTENDS Integers, Sequences, FiniteSets, TLC

\* ------------------------------------------------------------------------
\* Bounds of the exploration
MaxRows == 4        \* addRow is not offered on a grid of MaxRows rows
MaxCols == 4        \* addColumn is not offered on a grid of MaxCols columns
MaxOps == 4         \* user events and completions explored per behaviour
MaxRecorded == 52   \* uploads explored by the long-history specification

\* Program constant: the history keeps at most 50 entries
HistoryLimit == 50

\* ------------------------------------------------------------------------
\* Values
Null == [null |-> TRUE]            \* JavaScript null (csvData, editingCell)
NoHeader == -1                     \* editingHeader === null
NoItem == [item |-> FALSE]         \* localStorage.getItem(...) === null
Undefined == "<undefined>"         \* an optional string argument left out
Hole == "<empty>"                  \* an array slot never assigned
JsonNull == "<null>"               \* null read back from a JSON text

Table(h, d) == [headers |-> h, data |-> d]
Entry(c, f) == [csvData |-> c, fileName |-> f]

Min(a, b) == IF a < b THEN a ELSE b

\* Array.prototype.slice(from, to) with 0-based, end-exclusive bounds
Slice(s, from, to) == SubSeq(s, from + 1, Min(to, Len(s)))

\* Array.prototype.filter((_, index) => index !== k), k 0-based
RemoveAt(s, k) ==
    IF k < 0 \/ k >= Len(s) THEN s
    ELSE SubSeq(s, 1, k) \o SubSeq(s, k + 2, Len(s))

\* String.prototype.trim() on a sequence of characters
WhiteSpace == {" ", "\t", "\n"}
RECURSIVE TrimStart(_)
TrimStart(s) ==
    IF s # << >> /\ Head(s) \in WhiteSpace THEN TrimStart(Tail(s)) ELSE s
RECURSIVE TrimEnd(_)
TrimEnd(s) ==
    IF s # << >> /\ s[Len(s)] \in WhiteSpace
    THEN TrimEnd(SubSeq(s, 1, Len(s) - 1))
    ELSE s
Trim(s) == TrimEnd(TrimStart(s))

\* new Array(n).fill("")
Blanks(n) == [i \in 1..n |-> ""]

\* Template literal of addColumn: the two CJK characters of the source are
\* written by their code points, followed by a space and the number.
ColumnName(n) ==
    CASE n = 1 -> "U+6B04U+4F4D 1"
      [] n = 2 -> "U+6B04U+4F4D 2"
      [] n = 3 -> "U+6B04U+4F4D 3"
      [] n = 4 -> "U+6B04U+4F4D 4"
      [] n = 5 -> "U+6B04U+4F4D 5"
      [] OTHER -> "U+6B04U+4F4D n"

\* createTemplate: three headers (no space before the digit), 3 x 3 blanks
TemplateTable ==
    Table(<<"U+6B04U+4F4D1", "U+6B04U+4F4D2", "U+6B04U+4F4D3">>,
          <<Blanks(3), Blanks(3), Blanks(3)>>)

\* ------------------------------------------------------------------------
\* Inputs
FileNames == {"a.csv"}
\* result.data of Papa.parse: any list of rows, rows need not be equally wide
UploadPayloads ==
    { <<>>,
      << <<"h">>, <<"a", "b">> >>,
      << <<"a", "b">>, <<"1">>, <<"1", "2", "3">> >> }
\* result.table of the analysis response
AIPayloads ==
    { <<>>,
      << <<"h1">>, <<"a", "b">> >>,
      << <<"h1", "h2">> >> }
\* The key field and the instruction field of AIModifier when the button is
\* clicked; the instruction is written as its sequence of characters
ApiKeys == {"", "sk"}
Prompts == { << >>, << " ", "\t" >>, << " ", "s" >> }
CellValues == {"x"}
HeaderValues == {"g"}
StoredItems ==
    { [csvData |-> NoItem, csvFileName |-> NoItem],
      [csvData |-> [json |-> Table(<<"a">>, << <<"x">>, <<"y">> >>)],
       csvFileName |-> [json |-> "s.csv"]] }

\* What the long-lived storage can hold at startup: nothing, a table with
\* and without a file name, and a text that is no JSON
StartupItems ==
    StoredItems
    \cup { [csvData |-> [json |-> Table(<<"a", "b">>, << <<"1", "2">> >>)],
            csvFileName |-> NoItem],
           [csvData |-> [text |-> "{"],
            csvFileName |-> [json |-> "s.csv"]] }

VARIABLES
    csvData,              \* CSVEditor: canonical table or Null
    fileName,             \* CSVEditor
    isLoading,            \* CSVEditor
    history,              \* CSVEditor: sequence of Entry
    currentHistoryIndex,  \* CSVEditor: 0-based, -1 when empty
    internalHeaders,      \* CSVTable
    internalData,         \* CSVTable
    editingCell,          \* CSVTable: Null or [row, col]
    editingValue,         \* CSVTable
    editingHeader,        \* CSVTable: NoHeader or column index
    editingHeaderValue,   \* CSVTable
    isUpdatingRef,        \* CSVTable: isUpdatingRef.current
    timers,               \* pending setTimeout(..., 0) callbacks of CSVTable
    pending,              \* effects of CSVTable due after the last commit
    pendingSync,          \* the commit came from a discrete event
    saveDue,              \* the save effect of CSVEditor is due
    isInitializedRef,     \* CSVEditor: isInitializedRef.current
    skipNextSaveRef,      \* CSVEditor: skipNextSaveRef.current
    localStorage,         \* items csvData and csvFileName
    uploadClosure,        \* Null or the closure of the running Papa.parse
    isProcessing,         \* AIModifier
    analysisResult,       \* AIModifier
    aiClosure,            \* Null or the closure of the awaiting processWithAI
    nops,                 \* events counted against the exploration bound
    lastOp,               \* observer: the action taken last
    trail                 \* observer: the last two events with the state
                          \* of CSVEditor each of them started from

vars == << csvData, fileName, isLoading, history, currentHistoryIndex,
           internalHeaders, internalData, editingCell, editingValue,
           editingHeader, editingHeaderValue, isUpdatingRef, timers,
           pending, pendingSync, saveDue, isInitializedRef, skipNextSaveRef,
           localStorage, uploadClosure, isProcessing, analysisResult,
           aiClosure, nops, lastOp, trail >>

editVars == << editingCell, editingValue, editingHeader, editingHeaderValue >>
viewVars == << internalHeaders, internalData >>

\* ------------------------------------------------------------------------
\* CSVEditor

\* updateHistory with the cursor set to the length of the new history
updateHistoryCursorPastEnd(hist, idx, newCsvData, newFileName) ==
    LET sliced == Slice(hist, 0, idx + 1)
        pushed == Append(sliced, Entry(newCsvData, newFileName))
        newHistory == IF Len(pushed) > HistoryLimit THEN Tail(pushed)
                      ELSE pushed
    IN  [history |-> newHistory, index |-> Len(newHistory)]

\* updateHistory(newCsvData, newFileName) in a closure holding hist and idx:
\* the values handed to setHistory and setCurrentHistoryIndex
updateHistory(hist, idx, newCsvData, newFileName) ==
    LET sliced == Slice(hist, 0, idx + 1)
        pushed == Append(sliced, Entry(newCsvData, newFileName))
        newHistory == IF Len(pushed) > HistoryLimit THEN Tail(pushed)
                      ELSE pushed
    IN  [history |-> newHistory, index |-> Len(newHistory) - 1]

canUndo == currentHistoryIndex > 0
canRedo == currentHistoryIndex < Len(history) - 1

\* The state after construction, with the storage holding one of items
InitFrom(items) ==
    /\ csvData = Null
    /\ fileName = "data.csv"
    /\ isLoading = FALSE
    /\ history = <<>>
    /\ currentHistoryIndex = -1
    /\ internalHeaders = <<>>
    /\ internalData = <<>>
    /\ editingCell = Null
    /\ editingValue = ""
    /\ editingHeader = NoHeader
    /\ editingHeaderValue = ""
    /\ isUpdatingRef = FALSE
    /\ timers = 0
    /\ pending = "none"
    /\ pendingSync = FALSE
    /\ saveDue = FALSE
    /\ isInitializedRef = FALSE
    /\ skipNextSaveRef = FALSE
    /\ localStorage \in items
    /\ uploadClosure = Null
    /\ isProcessing = FALSE
    /\ analysisResult = ""
    /\ aiClosure = Null
    /\ nops = 0
    /\ lastOp = "init"
    /\ trail = << >>

Init == InitFrom(StoredItems)

\* The table is loaded: CSVTable and AIModifier are rendered
Mounted == csvData # Null

\* No effect is left to run after the last commit
Settled == pending = "none" /\ ~saveDue

\* The edit inputs CSVTable renders
CellInputShown ==
    /\ editingCell # Null
    /\ editingCell.row < Len(internalData)
    /\ editingCell.col < Len(internalHeaders)
HeaderInputShown ==
    /\ editingHeader # NoHeader
    /\ editingHeader < Len(internalHeaders)
InputShown == CellInputShown \/ HeaderInputShown

\* A click outside an edit input: the focused input blurs first, so the
\* click handler runs only when no input is shown
CanClick == isInitializedRef /\ Settled /\ ~InputShown

\* Commit of a batch of CSVEditor that leaves the state of a rendered
\* CSVTable alone.  csvSet: setCsvData was called (new array references).
\* When csvData was null before, CSVTable mounts with its useState
\* initialisers (CSVTable lines 25-37) and all its effects are due.
ParentCommit(newCsv, csvSet, newFile, newHist, newIdx, sync) ==
    /\ csvData' = newCsv
    /\ fileName' = newFile
    /\ history' = newHist
    /\ currentHistoryIndex' = newIdx
    /\ saveDue' = (csvSet \/ newFile # fileName)
    /\ pendingSync' = sync
    /\ IF csvData = Null /\ newCsv # Null
       THEN /\ internalHeaders' = newCsv.headers
            /\ internalData' = newCsv.data
            /\ pending' = "both"
       ELSE /\ UNCHANGED viewVars
            /\ pending' = IF newCsv = Null THEN "none"
                          ELSE IF csvSet THEN "both" ELSE "norm"
    /\ UNCHANGED << editVars, isUpdatingRef, timers >>

\* JSON.parse(savedData) returns: the item holds the text of a table
Parses(item) == "json" \in DOMAIN item

\* The restore effect leaving the cursor of the seeded history unset
StartupCursorUnset ==
    /\ ~isInitializedRef
    /\ isInitializedRef' = TRUE
    /\ skipNextSaveRef' = FALSE
    /\ IF localStorage.csvData # NoItem /\ Parses(localStorage.csvData)
       THEN LET parsedData == localStorage.csvData.json
                savedFileName == localStorage.csvFileName
                label == IF savedFileName # NoItem THEN savedFileName.json
                         ELSE "data.csv"
            IN  ParentCommit(parsedData, TRUE,
                             IF savedFileName # NoItem
                             THEN savedFileName.json ELSE fileName,
                             << Entry(parsedData, label) >>,
                             currentHistoryIndex, FALSE)
       ELSE UNCHANGED << csvData, fileName, history, currentHistoryIndex,
                         saveDue, pendingSync, pending, viewVars, editVars,
                         isUpdatingRef, timers >>
    /\ UNCHANGED << isLoading, localStorage, uploadClosure, isProcessing,
                    analysisResult, aiClosure >>

\* Mount of CSVEditor: the restore effect, then the save effect of the same
\* flush (which consumes skipNextSaveRef set by the restore effect).  When
\* JSON.parse throws, the catch block sets no state
Startup ==
    /\ ~isInitializedRef
    /\ isInitializedRef' = TRUE
    /\ skipNextSaveRef' = FALSE
    /\ IF localStorage.csvData # NoItem /\ Parses(localStorage.csvData)
       THEN LET parsedData == localStorage.csvData.json
                savedFileName == localStorage.csvFileName
                label == IF savedFileName # NoItem THEN savedFileName.json
                         ELSE "data.csv"
            IN  ParentCommit(parsedData, TRUE,
                             IF savedFileName # NoItem
                             THEN savedFileName.json ELSE fileName,
                             << Entry(parsedData, label) >>, 0, FALSE)
       ELSE UNCHANGED << csvData, fileName, history, currentHistoryIndex,
                         saveDue, pendingSync, pending, viewVars, editVars,
                         isUpdatingRef, timers >>
    /\ UNCHANGED << isLoading, localStorage, uploadClosure, isProcessing,
                    analysisResult, aiClosure >>

\* updateDataWithHistory(newCsvData, newFileName) in a closure holding
\* file, hist and idx: the values handed to the setters (setFileName is
\* called only when newFileName is given, the file name is kept otherwise)
updateDataWithHistory(file, hist, idx, newCsvData, newFileName) ==
    LET fileNameToUse == IF newFileName # Undefined THEN newFileName
                         ELSE file
    IN  [csvData |-> newCsvData,
         setFileName |-> newFileName # Undefined,
         fileName |-> fileNameToUse,
         log |-> updateHistory(hist, idx, newCsvData, fileNameToUse)]

createTemplate ==
    /\ CanClick
    /\ LET u == updateDataWithHistory(fileName, history, currentHistoryIndex,
                                      TemplateTable, "template.csv")
       IN  ParentCommit(u.csvData, TRUE, u.fileName, u.log.history,
                        u.log.index, TRUE)
    /\ UNCHANGED << isLoading, isInitializedRef, skipNextSaveRef,
                    localStorage, uploadClosure, isProcessing,
                    analysisResult, aiClosure >>

\* handleUndo restoring the entry at the old cursor
handleUndoOldCursor ==
    /\ CanClick
    /\ Mounted
    /\ currentHistoryIndex > 0
    /\ LET newIndex == currentHistoryIndex - 1
           previousState == history[currentHistoryIndex + 1]
       IN  ParentCommit(previousState.csvData, TRUE, previousState.fileName,
                        history, newIndex, TRUE)
    /\ UNCHANGED << isLoading, isInitializedRef, skipNextSaveRef,
                    localStorage, uploadClosure, isProcessing,
                    analysisResult, aiClosure >>

handleUndo ==
    /\ CanClick
    /\ Mounted
    /\ currentHistoryIndex > 0
    /\ LET newIndex == currentHistoryIndex - 1
           previousState == history[newIndex + 1]
       IN  ParentCommit(previousState.csvData, TRUE, previousState.fileName,
                        history, newIndex, TRUE)
    /\ UNCHANGED << isLoading, isInitializedRef, skipNextSaveRef,
                    localStorage, uploadClosure, isProcessing,
                    analysisResult, aiClosure >>

\* handleRedo without the call of setFileName
handleRedoKeepsFileName ==
    /\ CanClick
    /\ Mounted
    /\ currentHistoryIndex < Len(history) - 1
    /\ LET newIndex == currentHistoryIndex + 1
           nextState == history[newIndex + 1]
       IN  ParentCommit(nextState.csvData, TRUE, fileName,
                        history, newIndex, TRUE)
    /\ UNCHANGED << isLoading, isInitializedRef, skipNextSaveRef,
                    localStorage, uploadClosure, isProcessing,
                    analysisResult, aiClosure >>

handleRedo ==
    /\ CanClick
    /\ Mounted
    /\ currentHistoryIndex < Len(history) - 1
    /\ LET newIndex == currentHistoryIndex + 1
           nextState == history[newIndex + 1]
       IN  ParentCommit(nextState.csvData, TRUE, nextState.fileName,
                        history, newIndex, TRUE)
    /\ UNCHANGED << isLoading, isInitializedRef, skipNextSaveRef,
                    localStorage, uploadClosure, isProcessing,
                    analysisResult, aiClosure >>

\* The else branch of handleUndo moving the cursor to the first entry
handleUndoRefusedResets ==
    /\ isInitializedRef
    /\ Settled
    /\ ~(currentHistoryIndex > 0)
    /\ ParentCommit(csvData, FALSE, fileName, history, 0, TRUE)
    /\ UNCHANGED << isLoading, isInitializedRef, skipNextSaveRef,
                    localStorage, uploadClosure, isProcessing,
                    analysisResult, aiClosure >>

\* handleUndo called with currentHistoryIndex <= 0 (the else branch, line
\* 131): an error toast and no setter call, so no render follows
handleUndoRefused ==
    /\ isInitializedRef
    /\ Settled
    /\ ~(currentHistoryIndex > 0)
    /\ UNCHANGED << csvData, fileName, history, currentHistoryIndex,
                    viewVars, editVars, isUpdatingRef, timers, pending,
                    pendingSync, saveDue >>
    /\ UNCHANGED << isLoading, isInitializedRef, skipNextSaveRef,
                    localStorage, uploadClosure, isProcessing,
                    analysisResult, aiClosure >>

\* handleRedo called with the cursor on the last entry or on no entry (the
\* else branch, line 147): an error toast and no setter call
handleRedoRefused ==
    /\ isInitializedRef
    /\ Settled
    /\ ~(currentHistoryIndex < Len(history) - 1)
    /\ UNCHANGED << csvData, fileName, history, currentHistoryIndex,
                    viewVars, editVars, isUpdatingRef, timers, pending,
                    pendingSync, saveDue >>
    /\ UNCHANGED << isLoading, isInitializedRef, skipNextSaveRef,
                    localStorage, uploadClosure, isProcessing,
                    analysisResult, aiClosure >>

\* handleFileUpload up to the call of Papa.parse; the callbacks keep the
\* updateHistory of this render
handleFileUpload(file) ==
    /\ CanClick
    /\ ~isLoading
    /\ uploadClosure = Null
    /\ isLoading' = TRUE
    /\ uploadClosure' = [name |-> file, history |-> history,
                         index |-> currentHistoryIndex]
    /\ ParentCommit(csvData, FALSE, file, history, currentHistoryIndex, TRUE)
    /\ UNCHANGED << isInitializedRef, skipNextSaveRef, localStorage,
                    isProcessing, analysisResult, aiClosure >>

\* Papa.parse complete(result)
uploadComplete(parsedData) ==
    /\ uploadClosure # Null
    /\ Settled
    /\ isLoading' = FALSE
    /\ uploadClosure' = Null
    /\ IF Len(parsedData) > 0
       THEN LET headers == parsedData[1]
                data == Slice(parsedData, 1, Len(parsedData))
                newCsvData == Table(headers, data)
                log == updateHistory(uploadClosure.history,
                                     uploadClosure.index, newCsvData,
                                     uploadClosure.name)
            IN  ParentCommit(newCsvData, TRUE, fileName, log.history,
                             log.index, FALSE)
       ELSE ParentCommit(csvData, FALSE, fileName, history,
                         currentHistoryIndex, FALSE)
    /\ UNCHANGED << isInitializedRef, skipNextSaveRef, localStorage,
                    isProcessing, analysisResult, aiClosure >>

\* Papa.parse error(error)
uploadError ==
    /\ uploadClosure # Null
    /\ Settled
    /\ isLoading' = FALSE
    /\ uploadClosure' = Null
    /\ ParentCommit(csvData, FALSE, fileName, history, currentHistoryIndex,
                    FALSE)
    /\ UNCHANGED << isInitializedRef, skipNextSaveRef, localStorage,
                    isProcessing, analysisResult, aiClosure >>

\* ------------------------------------------------------------------------
\* CSVTable

\* handleDataChange(newData) / handleHeaderChange(newHeaders) of CSVEditor,
\* as CSVTable receives them: both read csvData, fileName, history and
\* currentHistoryIndex of the committed render
handleDataChange(newData) ==
    LET newCsvData == Table(csvData.headers, newData)
    IN  [csvData |-> newCsvData,
         log |-> updateHistory(history, currentHistoryIndex, newCsvData,
                               fileName)]

handleHeaderChange(newHeaders) ==
    LET newCsvData == Table(newHeaders, csvData.data)
    IN  [csvData |-> newCsvData,
         log |-> updateHistory(history, currentHistoryIndex, newCsvData,
                               fileName)]

\* The state CSVEditor commits after a batch in which the handlers above
\* were called in the order of calls: each call hands its values to
\* setCsvData, setHistory and setCurrentHistoryIndex, the last call wins
LastCall(calls) == calls[Len(calls)]

\* Commit of a batch of a CSVTable handler that called the handlers of
\* CSVEditor in calls (non-empty): csvData has new references
PushDown(calls, sync) ==
    /\ csvData' = LastCall(calls).csvData
    /\ history' = LastCall(calls).log.history
    /\ currentHistoryIndex' = LastCall(calls).log.index
    /\ saveDue' = TRUE
    /\ pending' = "both"
    /\ pendingSync' = sync
    /\ UNCHANGED fileName

\* The map of the normalization effect padding short rows only
NormalizeRowPadsOnly(row, headerCount) ==
    IF Len(row) < headerCount
    THEN row \o Blanks(headerCount - Len(row))
    ELSE row

\* The normalization effect's map over internalData (lines 56-66)
NormalizeRow(row, headerCount) ==
    IF Len(row) # headerCount
    THEN IF Len(row) > headerCount
         THEN Slice(row, 0, headerCount)
         ELSE row \o Blanks(headerCount - Len(row))
    ELSE row

normalizedData(headers, data) ==
    [i \in 1..Len(data) |-> NormalizeRow(data[i], Len(headers))]

\* needUpdate set for every row, as the copy [...row] is a new array
needUpdateOnEveryRow(headers, data) == Len(data) > 0

needUpdate(headers, data) ==
    \E i \in 1..Len(data) : Len(data[i]) # Len(headers)

\* row[col] = value on a JavaScript array, col 0-based: a write past the
\* end leaves the slots in between empty
SetAt(row, col, value) ==
    IF col < Len(row) THEN [row EXCEPT ![col + 1] = value]
    ELSE row \o [i \in 1..(col - Len(row)) |-> Hole] \o << value >>

otherVars == << isLoading, isInitializedRef, skipNextSaveRef, localStorage,
                uploadClosure, isProcessing, analysisResult, aiClosure >>

handleCellClick(row, col) ==
    /\ CanClick
    /\ Mounted
    /\ row < Len(internalData)
    /\ col < Len(internalHeaders)
    /\ LET r == internalData[row + 1]
           cell == IF col < Len(r) THEN r[col + 1] ELSE ""
       IN  /\ editingCell' = [row |-> row, col |-> col]
           /\ editingValue' = cell
    /\ UNCHANGED << csvData, fileName, history, currentHistoryIndex,
                    viewVars, editingHeader, editingHeaderValue,
                    isUpdatingRef, timers, pending, pendingSync, saveDue,
                    otherVars >>

handleCellChange(value) ==
    /\ Settled
    /\ CellInputShown
    /\ editingValue # value
    /\ editingValue' = value
    /\ UNCHANGED << csvData, fileName, history, currentHistoryIndex,
                    viewVars, editingCell, editingHeader, editingHeaderValue,
                    isUpdatingRef, timers, pending, pendingSync, saveDue,
                    otherVars >>

\* handleCellBlur writing the value into the rows held by the history entry
\* at the cursor instead of into a copy of them
handleCellBlurInPlace ==
    /\ Settled
    /\ Mounted
    /\ editingCell # Null
    /\ CellInputShown
    /\ editingCell' = Null
    /\ LET newData ==
               [internalData EXCEPT ![editingCell.row + 1] =
                   SetAt(@, editingCell.col, editingValue)]
           call == handleDataChange(newData)
           kept == [call.log.history EXCEPT
                       ![currentHistoryIndex + 1].csvData.data = newData]
       IN  /\ internalData' = newData
           /\ PushDown(<< [call EXCEPT !.log.history = kept] >>, TRUE)
    /\ UNCHANGED << internalHeaders, editingValue, editingHeader,
                    editingHeaderValue, isUpdatingRef, timers, otherVars >>

\* handleCellBlur: from the cell input (blur, Enter), or through
\* handleKeyDown of the header input while editingCell is set
handleCellBlur ==
    /\ Settled
    /\ Mounted
    /\ editingCell # Null
    /\ CellInputShown \/ HeaderInputShown
    /\ editingCell' = Null
    /\ IF /\ editingCell.row < Len(internalData)
          /\ editingCell.col < Len(internalHeaders)
       THEN LET newData ==
                    [internalData EXCEPT ![editingCell.row + 1] =
                        SetAt(@, editingCell.col, editingValue)]
            IN  /\ internalData' = newData
                /\ PushDown(<< handleDataChange(newData) >>, TRUE)
       ELSE UNCHANGED << internalData, csvData, fileName, history,
                         currentHistoryIndex, saveDue, pending, pendingSync >>
    /\ UNCHANGED << internalHeaders, editingValue, editingHeader,
                    editingHeaderValue, isUpdatingRef, timers, otherVars >>

handleHeaderClick(index) ==
    /\ CanClick
    /\ Mounted
    /\ index < Len(internalHeaders)
    /\ editingHeader' = index
    /\ editingHeaderValue' = internalHeaders[index + 1]
    /\ UNCHANGED << csvData, fileName, history, currentHistoryIndex,
                    viewVars, editingCell, editingValue,
                    isUpdatingRef, timers, pending, pendingSync, saveDue,
                    otherVars >>

handleHeaderChangeInput(value) ==
    /\ Settled
    /\ HeaderInputShown
    /\ editingHeaderValue # value
    /\ editingHeaderValue' = value
    /\ UNCHANGED << csvData, fileName, history, currentHistoryIndex,
                    viewVars, editingCell, editingValue, editingHeader,
                    isUpdatingRef, timers, pending, pendingSync, saveDue,
                    otherVars >>

\* handleHeaderBlur: from the header input (blur, or Enter while
\* editingCell is null)
handleHeaderBlur ==
    /\ Settled
    /\ Mounted
    /\ HeaderInputShown
    /\ LET newHeaders == SetAt(internalHeaders, editingHeader,
                               editingHeaderValue)
       IN  /\ internalHeaders' = newHeaders
           /\ PushDown(<< handleHeaderChange(newHeaders) >>, TRUE)
    /\ editingHeader' = NoHeader
    /\ UNCHANGED << internalData, editingCell, editingValue,
                    editingHeaderValue, isUpdatingRef, timers, otherVars >>

\* addRow without the setTimeout call of its finally block
addRowKeepsFlag ==
    /\ CanClick
    /\ Mounted
    /\ Len(internalData) < MaxRows
    /\ isUpdatingRef' = TRUE
    /\ LET newRow == Blanks(Len(internalHeaders))
           newData == Append(internalData, newRow)
       IN  /\ internalData' = newData
           /\ PushDown(<< handleDataChange(newData) >>, TRUE)
    /\ UNCHANGED << internalHeaders, editVars, otherVars, timers >>

\* The structural handlers set isUpdatingRef, push down inside try and
\* schedule the reset of the flag with setTimeout(..., 0) in finally
addRow ==
    /\ CanClick
    /\ Mounted
    /\ Len(internalData) < MaxRows
    /\ isUpdatingRef' = TRUE
    /\ timers' = timers + 1
    /\ LET newRow == Blanks(Len(internalHeaders))
           newData == Append(internalData, newRow)
       IN  /\ internalData' = newData
           /\ PushDown(<< handleDataChange(newData) >>, TRUE)
    /\ UNCHANGED << internalHeaders, editVars, otherVars >>

deleteRow(rowIndex) ==
    /\ CanClick
    /\ Mounted
    /\ rowIndex < Len(internalData)
    /\ isUpdatingRef' = TRUE
    /\ timers' = timers + 1
    /\ LET newData == RemoveAt(internalData, rowIndex)
       IN  /\ internalData' = newData
           /\ PushDown(<< handleDataChange(newData) >>, TRUE)
    /\ UNCHANGED << internalHeaders, editVars, otherVars >>

addColumn ==
    /\ CanClick
    /\ Mounted
    /\ Len(internalHeaders) < MaxCols
    /\ isUpdatingRef' = TRUE
    /\ timers' = timers + 1
    /\ LET newHeaders == Append(internalHeaders,
                                ColumnName(Len(internalHeaders) + 1))
           newData == [i \in 1..Len(internalData) |->
                          Append(internalData[i], "")]
       IN  /\ internalHeaders' = newHeaders
           /\ internalData' = newData
           /\ PushDown(<< handleHeaderChange(newHeaders),
                          handleDataChange(newData) >>, TRUE)
    /\ UNCHANGED << editVars, otherVars >>

deleteColumn(colIndex) ==
    /\ CanClick
    /\ Mounted
    /\ colIndex < Len(internalHeaders)
    /\ isUpdatingRef' = TRUE
    /\ timers' = timers + 1
    /\ LET newHeaders == RemoveAt(internalHeaders, colIndex)
           paddedRow(row) ==
               IF Len(row) < Len(internalHeaders)
               THEN row \o Blanks(Len(internalHeaders) - Len(row))
               ELSE row
           newData == [i \in 1..Len(internalData) |->
                          RemoveAt(paddedRow(internalData[i]), colIndex)]
       IN  /\ internalHeaders' = newHeaders
           /\ internalData' = newData
           /\ PushDown(<< handleHeaderChange(newHeaders),
                          handleDataChange(newData) >>, TRUE)
    /\ UNCHANGED << editVars, otherVars >>

\* The callback of setTimeout(..., 0).  The effects of a commit made by a
\* discrete event are flushed before the event returns, so before any timer
Timer ==
    /\ timers > 0
    /\ ~(pendingSync /\ ~Settled)
    /\ timers' = timers - 1
    /\ isUpdatingRef' = FALSE
    /\ UNCHANGED << csvData, fileName, history, currentHistoryIndex,
                    viewVars, editVars, pending, pendingSync, saveDue,
                    otherVars >>

\* JSON.parse(JSON.stringify(table)): a string comes back as it was, an
\* array slot never assigned is written as null and comes back as null
JSONStringify(t) ==
    LET cell(v) == IF v = Hole THEN JsonNull ELSE v
    IN  Table([i \in 1..Len(t.headers) |-> cell(t.headers[i])],
              [i \in 1..Len(t.data) |->
                  [j \in 1..Len(t.data[i]) |-> cell(t.data[i][j])]])

\* The save effect without its second setItem call: the file name stored
\* last is kept
SaveEffectKeepsStoredName ==
    IF saveDue
    THEN IF skipNextSaveRef
         THEN /\ skipNextSaveRef' = FALSE
              /\ UNCHANGED localStorage
         ELSE /\ UNCHANGED skipNextSaveRef
              /\ IF isInitializedRef /\ csvData # Null
                 THEN localStorage' =
                          [localStorage EXCEPT
                              !.csvData = [json |-> JSONStringify(csvData)]]
                 ELSE UNCHANGED localStorage
    ELSE UNCHANGED << skipNextSaveRef, localStorage >>

\* The save effect of CSVEditor (lines 72-84) on the committed render
SaveEffect ==
    IF saveDue
    THEN IF skipNextSaveRef
         THEN /\ skipNextSaveRef' = FALSE
              /\ UNCHANGED localStorage
         ELSE /\ UNCHANGED skipNextSaveRef
              /\ IF isInitializedRef /\ csvData # Null
                 THEN localStorage' =
                          [csvData |-> [json |-> JSONStringify(csvData)],
                           csvFileName |-> [json |-> fileName]]
                 ELSE UNCHANGED localStorage
    ELSE UNCHANGED << skipNextSaveRef, localStorage >>

\* One flush of passive effects after a commit: the prop-sync effect and
\* the normalization effect of CSVTable in their order of declaration, both
\* reading the committed render, then the save effect of CSVEditor; the
\* state they set is committed by the render that follows
Effects ==
    /\ ~Settled
    /\ LET runSync == Mounted /\ pending = "both" /\ ~isUpdatingRef
           runNorm == /\ Mounted
                      /\ pending \in {"both", "norm"}
                      /\ Len(internalData) > 0
                      /\ ~isUpdatingRef
           push == runNorm /\ needUpdate(internalHeaders, internalData)
           normalized == normalizedData(internalHeaders, internalData)
       IN  /\ internalHeaders' = IF runSync THEN csvData.headers
                                 ELSE internalHeaders
           /\ internalData' = IF push THEN normalized
                              ELSE IF runSync THEN csvData.data
                              ELSE internalData
           /\ IF push
              THEN PushDown(<< handleDataChange(normalized) >>, FALSE)
              ELSE /\ UNCHANGED << csvData, fileName, history,
                                   currentHistoryIndex >>
                   /\ saveDue' = FALSE
                   /\ pendingSync' = FALSE
                   /\ pending' = IF runSync THEN "norm" ELSE "none"
    /\ SaveEffect
    /\ UNCHANGED << editVars, isUpdatingRef, timers, isLoading,
                    isInitializedRef, uploadClosure, isProcessing,
                    analysisResult, aiClosure >>

\* ------------------------------------------------------------------------
\* AIModifier

\* processWithAI behind a button that stays enabled while isProcessing
processWithAIWhileProcessing(apiKey, prompt) ==
    /\ CanClick
    /\ Mounted
    /\ apiKey # ""
    /\ Trim(prompt) # << >>
    /\ isProcessing' = TRUE
    /\ analysisResult' = ""
    /\ aiClosure' = [fileName |-> fileName, history |-> history,
                     index |-> currentHistoryIndex]
    /\ UNCHANGED << csvData, fileName, history, currentHistoryIndex,
                    viewVars, editVars, isUpdatingRef, timers, pending,
                    pendingSync, saveDue, isLoading, isInitializedRef,
                    skipNextSaveRef, localStorage, uploadClosure >>

\* processWithAI without the two early returns
processWithAIUnchecked(apiKey, prompt) ==
    /\ CanClick
    /\ Mounted
    /\ ~isProcessing
    /\ isProcessing' = TRUE
    /\ analysisResult' = ""
    /\ aiClosure' = [fileName |-> fileName, history |-> history,
                     index |-> currentHistoryIndex]
    /\ UNCHANGED << csvData, fileName, history, currentHistoryIndex,
                    viewVars, editVars, isUpdatingRef, timers, pending,
                    pendingSync, saveDue, isLoading, isInitializedRef,
                    skipNextSaveRef, localStorage, uploadClosure >>

\* processWithAI with a key and an instruction that is not blank, up to the
\* await: the continuation keeps onDataUpdate of this render, that is
\* updateDataWithHistory with its fileName, history and currentHistoryIndex
processWithAI(apiKey, prompt) ==
    /\ CanClick
    /\ Mounted
    /\ ~isProcessing
    /\ apiKey # ""
    /\ Trim(prompt) # << >>
    /\ isProcessing' = TRUE
    /\ analysisResult' = ""
    /\ aiClosure' = [fileName |-> fileName, history |-> history,
                     index |-> currentHistoryIndex]
    /\ UNCHANGED << csvData, fileName, history, currentHistoryIndex,
                    viewVars, editVars, isUpdatingRef, timers, pending,
                    pendingSync, saveDue, isLoading, isInitializedRef,
                    skipNextSaveRef, localStorage, uploadClosure >>

\* processWithAI returning early (lines 63-72): no key, or an instruction
\* that is blank once trimmed; an error toast (and the key field shown) and
\* no call
processWithAIRefused(apiKey, prompt) ==
    /\ CanClick
    /\ Mounted
    /\ ~isProcessing
    /\ apiKey = "" \/ Trim(prompt) = << >>
    /\ UNCHANGED << csvData, fileName, history, currentHistoryIndex,
                    viewVars, editVars, isUpdatingRef, timers, pending,
                    pendingSync, saveDue, isLoading, isInitializedRef,
                    skipNextSaveRef, localStorage, uploadClosure,
                    isProcessing, analysisResult, aiClosure >>

\* A continuation that surfaces the message when surface holds and hands
\* the table to onDataUpdate when apply holds
aiContinuation(surface, apply, message, table) ==
    /\ aiClosure # Null
    /\ Settled
    /\ isProcessing' = FALSE
    /\ aiClosure' = Null
    /\ analysisResult' = IF surface THEN message ELSE analysisResult
    /\ IF apply
       THEN LET newHeaders == IF Len(table) > 0 THEN table[1] ELSE << >>
                newData == Slice(table, 1, Len(table))
                u == updateDataWithHistory(aiClosure.fileName,
                         aiClosure.history, aiClosure.index,
                         Table(newHeaders, newData), Undefined)
            IN  ParentCommit(u.csvData, TRUE, fileName,
                             u.log.history, u.log.index, FALSE)
       ELSE UNCHANGED << csvData, fileName, history, currentHistoryIndex,
                         viewVars, editVars, isUpdatingRef, timers, pending,
                         pendingSync, saveDue >>
    /\ UNCHANGED << isLoading, isInitializedRef, skipNextSaveRef,
                    localStorage, uploadClosure >>

\* The continuation updating the data whatever needsModification says
aiResultIgnoresSignal(needsModification, message, table) ==
    aiContinuation(Len(table) > 0, Len(table) > 0, message, table)

\* The continuation without the test result.table.length > 0
aiResultAcceptsEmpty(needsModification, message, table) ==
    aiContinuation(TRUE, needsModification, message, table)

\* The continuation asking for a data row: result.table.length > 1
aiResultNeedsDataRow(needsModification, message, table) ==
    aiContinuation(Len(table) > 1, Len(table) > 1 /\ needsModification,
                   message, table)

\* The continuation with a parsed result
aiResult(needsModification, message, table) ==
    /\ aiClosure # Null
    /\ Settled
    /\ isProcessing' = FALSE
    /\ aiClosure' = Null
    /\ analysisResult' = IF Len(table) > 0 THEN message ELSE analysisResult
    /\ IF Len(table) > 0 /\ needsModification
       THEN LET newHeaders == table[1]
                newData == Slice(table, 1, Len(table))
                u == updateDataWithHistory(aiClosure.fileName,
                         aiClosure.history, aiClosure.index,
                         Table(newHeaders, newData), Undefined)
            IN  ParentCommit(u.csvData, TRUE,
                             IF u.setFileName THEN u.fileName ELSE fileName,
                             u.log.history, u.log.index, FALSE)
       ELSE UNCHANGED << csvData, fileName, history, currentHistoryIndex,
                         viewVars, editVars, isUpdatingRef, timers, pending,
                         pendingSync, saveDue >>
    /\ UNCHANGED << isLoading, isInitializedRef, skipNextSaveRef,
                    localStorage, uploadClosure >>

\* The continuation after a failure leaving the request outstanding
aiFailureRetries ==
    /\ aiClosure # Null
    /\ Settled
    /\ UNCHANGED << csvData, fileName, history, currentHistoryIndex,
                    viewVars, editVars, isUpdatingRef, timers, pending,
                    pendingSync, saveDue, isLoading, isInitializedRef,
                    skipNextSaveRef, localStorage, uploadClosure,
                    analysisResult, isProcessing, aiClosure >>

\* The continuation without a parsed result, or after the call threw
aiFailure ==
    /\ aiClosure # Null
    /\ Settled
    /\ isProcessing' = FALSE
    /\ aiClosure' = Null
    /\ UNCHANGED << csvData, fileName, history, currentHistoryIndex,
                    viewVars, editVars, isUpdatingRef, timers, pending,
                    pendingSync, saveDue, isLoading, isInitializedRef,
                    skipNextSaveRef, localStorage, uploadClosure,
                    analysisResult >>

\* ------------------------------------------------------------------------
\* Specifications

\* The corner cells of the grid, 0-based
CornerRows == {0, Len(internalData) - 1} \cap (0..(Len(internalData) - 1))
CornerCols ==
    {0, Len(internalHeaders) - 1} \cap (0..(Len(internalHeaders) - 1))

\* The observers: an event (a user event or the completion of a callback)
\* is remembered with the state of CSVEditor it started from and with
\* whether it changed the history and the cursor it left; Startup, Effects
\* and Timer are not events
NoArg == [none |-> TRUE]

SnapshotOf(op, arg) ==
    [op |-> op, arg |-> arg, csvData |-> csvData, fileName |-> fileName,
     history |-> history, index |-> currentHistoryIndex,
     recorded |-> history' # history, after |-> currentHistoryIndex']

Snapshot(op) == SnapshotOf(op, NoArg)

Free(op, A) ==
    /\ A
    /\ lastOp' = op
    /\ UNCHANGED << nops, trail >>

\* An event remembered with the input it was given and, when it gives the
\* view a new table, with isUpdatingRef as it found it
EventOf(op, arg, A) ==
    /\ nops < MaxOps
    /\ A
    /\ nops' = nops + 1
    /\ lastOp' = op
    /\ trail' = IF trail = << >> THEN << SnapshotOf(op, arg) >>
                ELSE << trail[Len(trail)], SnapshotOf(op, arg) >>

Event(op, A) == EventOf(op, NoArg, A)

Next ==
    \/ Free("Startup", Startup)
    \/ Free("Effects", Effects)
    \/ Free("Timer", Timer)
    \/ Event("createTemplate", createTemplate)
    \/ EventOf("handleUndo", [flag |-> isUpdatingRef], handleUndo)
    \/ EventOf("handleRedo", [flag |-> isUpdatingRef], handleRedo)
    \/ Event("handleUndoRefused", handleUndoRefused)
    \/ Event("handleRedoRefused", handleRedoRefused)
    \/ Event("handleFileUpload", \E f \in FileNames : handleFileUpload(f))
    \/ \E p \in UploadPayloads :
           EventOf("uploadComplete",
                   [rows |-> Len(p), flag |-> isUpdatingRef],
                   uploadComplete(p))
    \/ Event("uploadError", uploadError)
    \/ Event("handleCellClick",
             \E r \in CornerRows, c \in CornerCols : handleCellClick(r, c))
    \/ Free("handleCellChange", \E v \in CellValues : handleCellChange(v))
    \/ EventOf("handleCellBlur", editingCell, handleCellBlur)
    \/ Event("handleHeaderClick", \E c \in CornerCols : handleHeaderClick(c))
    \/ Free("handleHeaderChangeInput",
            \E v \in HeaderValues : handleHeaderChangeInput(v))
    \/ EventOf("handleHeaderBlur", [col |-> editingHeader], handleHeaderBlur)
    \/ Event("addRow", addRow)
    \/ Event("deleteRow", \E r \in CornerRows : deleteRow(r))
    \/ Event("addColumn", addColumn)
    \/ \E c \in CornerCols :
           EventOf("deleteColumn", [col |-> c], deleteColumn(c))
    \/ Event("processWithAI",
             \E k \in ApiKeys, p \in Prompts : processWithAI(k, p))
    \/ \E n \in BOOLEAN, t \in AIPayloads :
           EventOf("aiResult",
                   [needsModification |-> n, table |-> t,
                    flag |-> isUpdatingRef],
                   aiResult(n, "note", t))
    \/ Event("aiFailure", aiFailure)

Spec == Init /\ [][Next]_vars

\* The long-history specification: files are uploaded one after the other
\* onto the end of the history until it has been full for a few records,
\* with undo and redo in between, and one analysis request, submitted on the
\* first entry or just before the history is full, whose result arrives
\* when the history is full.  nops counts the records made.
FirstUpload == << <<"first">>, <<"1">> >>
LaterUpload == << <<"later">>, <<"2">> >>
HistPayload == IF nops = 0 THEN FirstUpload ELSE LaterUpload
HistFile == IF nops % 2 = 0 THEN "a.csv" ELSE "b.csv"
HistAnswer == << <<"h1", "h2">> >>

Recorded(op, A) ==
    /\ A
    /\ nops' = nops + 1
    /\ lastOp' = op
    /\ UNCHANGED trail

InitHist == Init /\ localStorage.csvData = NoItem

NextHist ==
    \/ Free("Startup", Startup)
    \/ Free("Effects", Effects)
    \/ Free("handleFileUpload",
            nops < MaxRecorded /\ ~canRedo /\ handleFileUpload(HistFile))
    \/ Recorded("uploadComplete", uploadComplete(HistPayload))
    \/ Free("handleUndo", uploadClosure = Null /\ handleUndo)
    \/ Free("handleRedo", uploadClosure = Null /\ handleRedo)
    \/ Free("processWithAI",
            /\ Len(history) \in {1, HistoryLimit - 1}
            /\ ~canRedo
            /\ uploadClosure = Null
            /\ \E k \in ApiKeys, p \in Prompts : processWithAI(k, p))
    \/ Recorded("aiResult",
                /\ Len(history) = HistoryLimit
                /\ uploadClosure = Null
                /\ aiResult(TRUE, "note", HistAnswer))

SpecHist == InitHist /\ [][NextHist]_vars

\* The startup specification: the editor is mounted on any content of the
\* storage, and the grid is then edited cell by cell, with undo and redo
InitStart == InitFrom(StartupItems)

NextStart ==
    \/ Free("Startup", Startup)
    \/ Free("Effects", Effects)
    \/ Event("handleUndo", handleUndo)
    \/ Event("handleRedo", handleRedo)
    \/ Event("handleUndoRefused", handleUndoRefused)
    \/ Event("handleRedoRefused", handleRedoRefused)
    \/ Event("createTemplate", createTemplate)
    \/ Event("handleCellClick",
             \E r \in CornerRows, c \in CornerCols : handleCellClick(r, c))
    \/ Free("handleCellChange", \E v \in CellValues : handleCellChange(v))
    \/ EventOf("handleCellBlur", editingCell, handleCellBlur)

SpecStart == InitStart /\ [][NextStart]_vars

\* The analysis specification: requests are submitted with any key and
\* instruction, the grid is edited while a request is outstanding, and the
\* awaited call of every request returns or throws
NextAI ==
    \/ Free("Startup", Startup)
    \/ Free("Effects", Effects)
    \/ Free("Timer", Timer)
    \/ Event("createTemplate", createTemplate)
    \/ Event("addRow", addRow)
    \/ Event("handleUndo", handleUndo)
    \/ \E k \in ApiKeys, p \in Prompts :
           EventOf("processWithAI", [apiKey |-> k, prompt |-> p],
                   processWithAI(k, p))
    \/ \E k \in ApiKeys, p \in Prompts :
           EventOf("processWithAIRefused", [apiKey |-> k, prompt |-> p],
                   processWithAIRefused(k, p))
    \/ Free("aiResult",
            \E n \in BOOLEAN, t \in AIPayloads : aiResult(n, "note", t))
    \/ Free("aiFailure", aiFailure)

Completion ==
    \/ Free("aiResult",
            \E n \in BOOLEAN, t \in AIPayloads : aiResult(n, "note", t))
    \/ Free("aiFailure", aiFailure)

SpecAI ==
    /\ Init
    /\ [][NextAI]_vars
    /\ WF_vars(Free("Effects", Effects))
    /\ WF_vars(Completion)

\* ------------------------------------------------------------------------
\* Claims

\* Every row of a table is as wide as its header row
Rectangular(t) == \A i \in 1..Len(t.data) : Len(t.data[i]) = Len(t.headers)

\* No handler or effect is running or due, and no timer is pending
Quiescent == isInitializedRef /\ Settled /\ timers = 0

\* C1: whenever no handler or effect is mid-execution, every row of the
\* canonical table csvData.data is as long as csvData.headers
C1_CanonicalRectangular ==
    (Quiescent /\ csvData # Null) => Rectangular(csvData)

\* The event taken last and the one before it
LastEvent == trail[Len(trail)]
JustDone(op) == trail # << >> /\ lastOp = op /\ LastEvent.op = op
\* The last event is op and no other event has been taken since (effects
\* and timers may have run)
SinceEvent(op) == trail # << >> /\ LastEvent.op = op

\* C2: a record performed when the cursor is not on the last entry keeps
\* exactly the entries up to the cursor and appends the new one, the cursor
\* ends on it and nothing is left to redo
C2_RecordTruncatesAtCursor ==
    (/\ trail # << >>
     /\ lastOp = LastEvent.op
     /\ LastEvent.recorded
     /\ LastEvent.index < Len(LastEvent.history) - 1)
    => /\ Len(history) = LastEvent.index + 2
       /\ SubSeq(history, 1, LastEvent.index + 1)
            = SubSeq(LastEvent.history, 1, LastEvent.index + 1)
       /\ currentHistoryIndex = LastEvent.index + 1
       /\ ~canRedo

\* C3: after an undo or a redo, also once the view has re-synchronised, the
\* history entries are those from before the operation
C3_UndoRedoKeepEntries ==
    (SinceEvent("handleUndo") \/ SinceEvent("handleRedo"))
    => history = LastEvent.history

\* C4: a recorded edit made on a loaded table T, then undo at once, makes the
\* canonical table equal to T
C4_RecordThenUndo ==
    (/\ Len(trail) = 2
     /\ JustDone("handleUndo")
     /\ trail[1].recorded
     /\ trail[1].csvData # Null)
    => csvData = trail[1].csvData

\* C5: from a cursor > 0, undo can be followed by redo, and the redo gives
\* back the table, the file name and the cursor from before the undo
C5_UndoThenRedo ==
    /\ (SinceEvent("handleUndo") /\ Settled) => canRedo
    /\ (/\ Len(trail) = 2
        /\ trail[1].op = "handleUndo"
        /\ SinceEvent("handleRedo"))
       => /\ csvData = trail[1].csvData
          /\ fileName = trail[1].fileName
          /\ currentHistoryIndex = trail[1].index

\* C6: a non-empty history has its cursor on one of its entries
C6_CursorInBounds ==
    Len(history) > 0 =>
        (0 <= currentHistoryIndex /\ currentHistoryIndex < Len(history))

C6_Witness ==
    /\ JustDone("handleUndo")
    /\ Len(history) >= 3
    /\ currentHistoryIndex = 0

C7_EvictOldest ==
    /\ [](Len(history) <= HistoryLimit)
    /\ [][(/\ Len(history) = HistoryLimit
           /\ currentHistoryIndex = HistoryLimit - 1
           /\ nops' = nops + 1)
          => (/\ Len(history') = HistoryLimit
              /\ SubSeq(history', 1, HistoryLimit - 1) = Tail(history)
              /\ currentHistoryIndex' = HistoryLimit - 1)]_vars

\* C8: once more than 50 entries have been recorded, the table recorded
\* first is never current again, and at most 49 undos can succeed in a row
C8_OldestUnreachable ==
    /\ nops > HistoryLimit =>
           (csvData = Null \/ csvData.headers # FirstUpload[1])
    /\ currentHistoryIndex <= HistoryLimit - 1

\* The state of CSVEditor the last event started from is the state now
SharedStateKept ==
    /\ csvData = LastEvent.csvData
    /\ fileName = LastEvent.fileName
    /\ history = LastEvent.history
    /\ currentHistoryIndex = LastEvent.index

\* C11: undo requested with the cursor <= 0 (the empty history included) and
\* redo requested with the cursor on the last entry change neither the
\* canonical table, nor the file name, nor the history, nor the cursor
C11_RefusedUndoRedoNoOp ==
    /\ SinceEvent("handleUndoRefused") =>
           (LastEvent.index <= 0 /\ SharedStateKept)
    /\ SinceEvent("handleRedoRefused") =>
           (LastEvent.index >= Len(LastEvent.history) - 1 /\ SharedStateKept)

C11_Witness ==
    /\ Len(trail) = 2
    /\ trail[1].op = "handleUndoRefused"
    /\ JustDone("handleRedoRefused")
    /\ csvData # Null
    /\ Len(history) = 1
    /\ currentHistoryIndex = 0

\* C12: the table an analysis payload is accepted as, both as the canonical
\* table and as the history entry recorded for it, has every row as wide as
\* its header row
C12_AcceptedPayloadNormalized ==
    (JustDone("aiResult") /\ LastEvent.recorded)
    => /\ Rectangular(csvData)
       /\ Rectangular(history[currentHistoryIndex + 1].csvData)

\* The last event is the arrival of an analysis result with this change
\* signal and a table of this many rows at least
AnswerWas(signal, minRows) ==
    /\ SinceEvent("aiResult")
    /\ LastEvent.arg.needsModification = signal
    /\ Len(LastEvent.arg.table) >= minRows

\* C13: a response with needsModification false and a non-empty table has
\* its message surfaced and changes neither the canonical table, nor the
\* file name, nor the history, nor the cursor
C13_NoChangeSignalNoRecord ==
    AnswerWas(FALSE, 1) => (SharedStateKept /\ analysisResult = "note")

C13_Witness ==
    /\ AnswerWas(FALSE, 1)
    /\ lastOp = "aiResult"
    /\ LastEvent.arg.table[1] # csvData.headers
    /\ ~isProcessing

\* C14: a response with an empty table, whatever its change signal, changes
\* neither the canonical table, nor the file name, nor the history, nor the
\* cursor
C14_EmptyTableRejected ==
    (SinceEvent("aiResult") /\ Len(LastEvent.arg.table) = 0)
    => SharedStateKept

C14_Witness ==
    /\ JustDone("aiResult")
    /\ Len(LastEvent.arg.table) = 0
    /\ LastEvent.arg.needsModification
    /\ ~isProcessing

\* C15: an accepted analysis result (non-empty table, change signalled)
\* makes the canonical table the first payload row as headers and the other
\* payload rows as data, keeps the file name, and adds exactly one entry,
\* holding that table, after the entries up to the cursor
C15_AcceptedResultReplaces ==
    (AnswerWas(TRUE, 1) /\ lastOp = "aiResult")
    => /\ csvData = Table(LastEvent.arg.table[1], Tail(LastEvent.arg.table))
       /\ fileName = LastEvent.fileName
       /\ Len(history) = LastEvent.index + 2
       /\ SubSeq(history, 1, LastEvent.index + 1)
            = SubSeq(LastEvent.history, 1, LastEvent.index + 1)
       /\ history[Len(history)].csvData = csvData

\* C16: a signalled payload of a header row only makes the canonical table
\* that header row with no data row, and its message is surfaced as for any
\* accepted result; the table stays so once the view has synchronised
C16_HeaderOnlyPayloadValid ==
    (AnswerWas(TRUE, 1) /\ Len(LastEvent.arg.table) = 1)
    => /\ csvData = Table(LastEvent.arg.table[1], << >>)
       /\ analysisResult = "note"

C16_Witness ==
    /\ AnswerWas(TRUE, 1)
    /\ Len(LastEvent.arg.table) = 1
    /\ lastOp = "Effects"
    /\ Settled
    /\ internalHeaders = LastEvent.arg.table[1]
    /\ internalData = << >>
    /\ Len(LastEvent.csvData.data) > 0

\* C17: after the analysis call threw or gave no parsed result, the
\* canonical table, the file name, the history and the cursor are as before,
\* and no request is outstanding
C17_FailureNoOpNoRetry ==
    SinceEvent("aiFailure")
    => (SharedStateKept /\ aiClosure = Null /\ ~isProcessing)

C17_Witness ==
    /\ JustDone("aiFailure")
    /\ Len(trail) = 2
    /\ trail[1].op = "processWithAI"
    /\ csvData # Null

\* C18: a result arriving after the history or the cursor changed since the
\* request was submitted does not drop the entries the user has up to the
\* cursor
C18_ResultKeepsNewerEdits ==
    [][(/\ aiClosure # Null
        /\ aiClosure' = Null
        /\ (aiClosure.history # history
               \/ aiClosure.index # currentHistoryIndex)
        /\ history' # history)
       => (/\ Len(history') > currentHistoryIndex + 1
           /\ SubSeq(history', 1, currentHistoryIndex + 1)
                = SubSeq(history, 1, currentHistoryIndex + 1))]_vars

\* C19: a request is outstanding exactly while isProcessing holds, and no
\* submission is started while one is outstanding
C19_SingleOutstandingRequest ==
    /\ [](isProcessing <=> aiClosure # Null)
    /\ [][aiClosure # Null => lastOp' # "processWithAI"]_vars

\* A grid edit committed while the request is outstanding
C19_Witness ==
    /\ Len(trail) = 2
    /\ trail[1].op = "processWithAI"
    /\ JustDone("addRow")
    /\ LastEvent.recorded
    /\ aiClosure # Null
    /\ isProcessing

\* C20: addColumn on a table of N headers makes the canonical headers the N
\* old ones followed by the name made from N + 1, and every canonical row
\* its old content followed by one empty cell
C20_AddColumnAppends ==
    JustDone("addColumn")
    => LET old == LastEvent.csvData
       IN  /\ csvData.headers =
                 Append(old.headers, ColumnName(Len(old.headers) + 1))
           /\ csvData.data =
                 [i \in 1..Len(old.data) |-> Append(old.data[i], "")]

\* C21: deleteColumn(col) makes the canonical headers the old ones without
\* position col, and every canonical row the old row, right-padded with
\* empty strings to the old header count when shorter, without position col
C21_DeleteColumnRemoves ==
    JustDone("deleteColumn")
    => LET old == LastEvent.csvData
           col == LastEvent.arg.col
           padded(row) ==
               IF Len(row) < Len(old.headers)
               THEN row \o [k \in 1..(Len(old.headers) - Len(row)) |-> ""]
               ELSE row
       IN  /\ csvData.headers = RemoveAt(old.headers, col)
           /\ csvData.data =
                 [i \in 1..Len(old.data) |-> RemoveAt(padded(old.data[i]), col)]

\* C22: addRow makes the canonical rows the old rows followed by one row of
\* empty strings as wide as the canonical header row, and keeps the headers
C22_AddRowAppendsBlankRow ==
    JustDone("addRow")
    => LET old == LastEvent.csvData
       IN  /\ csvData.headers = old.headers
           /\ csvData.data =
                 Append(old.data, [k \in 1..Len(old.headers) |-> ""])

\* C23: committing a cell edit whose row is not a row of the canonical table
\* or whose column is not one of its headers changes neither the canonical
\* table nor the history
C23_OutOfRangeCellCommit ==
    (/\ JustDone("handleCellBlur")
     /\ LastEvent.csvData # Null
     /\ \/ LastEvent.arg.row >= Len(LastEvent.csvData.data)
        \/ LastEvent.arg.col >= Len(LastEvent.csvData.headers))
    => /\ csvData = LastEvent.csvData
       /\ history = LastEvent.history

\* C24: committing a header edit whose column index is not below the header
\* count of the canonical table keeps the canonical headers and adds no
\* history entry
C24_OutOfRangeHeaderCommit ==
    (/\ JustDone("handleHeaderBlur")
     /\ LastEvent.csvData # Null
     /\ LastEvent.arg.col >= Len(LastEvent.csvData.headers))
    => /\ csvData.headers = LastEvent.csvData.headers
       /\ history = LastEvent.history

\* The table the normalization effect makes of the rows of an uploaded file
\* with one short and one long row
NormalizedUpload ==
    Table(<<"a", "b">>, << <<"1", "">>, <<"1", "2">> >>)

\* C25: for the headers H and the rows of the view, the normalization step
\* gives, row by row and in order, the first |H| cells of a longer row, a
\* shorter row followed by empty strings up to |H| cells, and a row of |H|
\* cells unchanged; every resulting row has |H| cells
C25_NormalizeRows ==
    LET H == Len(internalHeaders)
        n == normalizedData(internalHeaders, internalData)
    IN  /\ Len(n) = Len(internalData)
        /\ \A i \in 1..Len(internalData) :
              LET row == internalData[i]
              IN  /\ Len(row) > H => n[i] = SubSeq(row, 1, H)
                  /\ Len(row) < H =>
                        n[i] = row \o [k \in 1..(H - Len(row)) |-> ""]
                  /\ Len(row) = H => n[i] = row
                  /\ Len(n[i]) = H

\* The effect has padded one row and truncated another of an uploaded file
C25_Witness ==
    /\ lastOp = "Effects"
    /\ csvData = NormalizedUpload
    /\ Len(history) >= 2
    /\ ~Rectangular(history[Len(history) - 1].csvData)

\* C26: normalizing the normalized rows gives them back and asks for no
\* update, and a run of the effects on a view whose rows are all as wide as
\* its header row changes neither the canonical table nor the history
C26_NormalizeIdempotent ==
    /\ [](LET n == normalizedData(internalHeaders, internalData)
          IN  /\ normalizedData(internalHeaders, n) = n
              /\ ~needUpdate(internalHeaders, n))
    /\ [][(lastOp' = "Effects" /\ ~needUpdate(internalHeaders, internalData))
          => (csvData' = csvData /\ history' = history)]_vars

\* The effects have run again on the rows they normalized and are done
C26_Witness ==
    /\ lastOp = "Effects"
    /\ Settled
    /\ ~isUpdatingRef
    /\ csvData = NormalizedUpload
    /\ Table(internalHeaders, internalData) = NormalizedUpload
    /\ Len(history) = 2
    /\ currentHistoryIndex = 1

\* The event e gave the view a new canonical table from below
Replaced(e) ==
    \/ e.op \in {"handleUndo", "handleRedo"}
    \/ e.op \in {"aiResult", "uploadComplete"} /\ e.recorded

\* C27: once the view has synchronised with a table received from below
\* (undo, redo, accepted analysis result, upload) no cell or header edit is
\* in progress, and a commit that follows with no click in between puts no
\* draft into the new table
C27_ReplacementDiscardsDrafts ==
    /\ (trail # << >> /\ Replaced(LastEvent) /\ Settled)
       => (editingCell = Null /\ editingHeader = NoHeader)
    /\ (/\ Len(trail) = 2
        /\ Replaced(trail[1])
        /\ JustDone("handleCellBlur") \/ JustDone("handleHeaderBlur"))
       => (csvData = LastEvent.csvData /\ history = LastEvent.history)

\* The last event is a structural edit of the grid
StructuralEdit ==
    trail # << >>
    /\ LastEvent.op \in {"addRow", "deleteRow", "addColumn", "deleteColumn"}

\* C28: once the effects and the timer that follow a structural edit are
\* done, exactly one entry has been added after the entries up to the old
\* cursor, and the table of that entry and the canonical table both are the
\* headers and rows of the view
C28_StructuralEditOneRecord ==
    (StructuralEdit /\ Quiescent)
    => /\ Len(history) = LastEvent.index + 2
       /\ SubSeq(history, 1, LastEvent.index + 1)
            = SubSeq(LastEvent.history, 1, LastEvent.index + 1)
       /\ currentHistoryIndex = Len(history) - 1
       /\ history[Len(history)].csvData = csvData
       /\ csvData = Table(internalHeaders, internalData)

\* C30: a cell edit and a header edit are never in progress together
C30_AtMostOneDraft ==
    ~(editingCell # Null /\ editingHeader # NoHeader)

\* C29: whenever isUpdatingRef is set, a callback that clears it is pending
C29_FlagHasPendingReset ==
    isUpdatingRef => timers > 0

\* The same behaviours when the browser runs every setTimeout callback and
\* React flushes the effects of every commit
SpecFair ==
    /\ Spec
    /\ WF_vars(Free("Timer", Timer))
    /\ WF_vars(Free("Effects", Effects))

\* Under SpecFair the flag, once set, is cleared
FlagEventuallyCleared == isUpdatingRef ~> ~isUpdatingRef

\* The flag set by a structural edit has been cleared by its timer
C29_Witness ==
    /\ StructuralEdit
    /\ lastOp = "Timer"
    /\ ~isUpdatingRef
    /\ timers = 0

\* The histories a record can start from: the committed one and those kept
\* by the closures of a running upload and of an awaited analysis call
HeldHistories ==
    {history}
    \cup (IF uploadClosure # Null THEN {uploadClosure.history} ELSE {})
    \cup (IF aiClosure # Null THEN {aiClosure.history} ELSE {})

\* C31: a step that changes the history leaves, before the entry it adds,
\* only entries of a history held before the step, unchanged in table and
\* label and in their order (the first one dropped or not)
C31_EntriesImmutable ==
    [][history' # history
       => \E h \in HeldHistories : \E from \in 1..2 : \E to \in 0..Len(h) :
              SubSeq(history', 1, Len(history') - 1) = SubSeq(h, from, to)]_vars

\* A cell edit was recorded after the entry of the table it was made on
C31_Witness ==
    /\ JustDone("handleCellBlur")
    /\ LastEvent.recorded
    /\ Len(history) >= 2
    /\ history[Len(history) - 1].csvData = LastEvent.csvData
    /\ history[Len(history)].csvData = csvData
    /\ csvData # LastEvent.csvData

\* C32: whenever a table is loaded and no handler or effect is pending, the
\* stored table read back and the stored file name are the canonical table
\* and the current file name
C32_PersistedEqualsCanonical ==
    (isInitializedRef /\ Settled /\ csvData # Null)
    => /\ localStorage.csvData # NoItem
       /\ localStorage.csvData.json = csvData
       /\ localStorage.csvFileName # NoItem
       /\ localStorage.csvFileName.json = fileName

\* The table and the file name of an undo have been stored
C32_Witness ==
    /\ SinceEvent("handleUndo")
    /\ lastOp = "Effects"
    /\ Settled
    /\ csvData # LastEvent.csvData
    /\ fileName # LastEvent.fileName
    /\ localStorage.csvData.json = csvData
    /\ localStorage.csvFileName.json = fileName

C34_FailedUploadNoOp ==
    (/\ Len(trail) = 2
     /\ trail[1].op = "handleFileUpload"
     /\ \/ JustDone("uploadError")
        \/ JustDone("uploadComplete") /\ LastEvent.arg.rows = 0)
    => /\ csvData = trail[1].csvData
       /\ fileName = trail[1].fileName
       /\ history = trail[1].history
       /\ currentHistoryIndex = trail[1].index

\* C35: whenever the history is not empty and no handler or effect is left
\* to run, the canonical table and the file name are the table and the label
\* of the history entry at the cursor
C35_CanonicalIsEntryAtCursor ==
    (Len(history) > 0 /\ isInitializedRef /\ Settled)
    => /\ currentHistoryIndex \in 0..(Len(history) - 1)
       /\ csvData = history[currentHistoryIndex + 1].csvData
       /\ fileName = history[currentHistoryIndex + 1].fileName

\* The records made by the effects since the last event (since startup when
\* no event was taken): each of them moves the cursor up by one
PushesSinceEvent ==
    IF trail = << >> THEN currentHistoryIndex
    ELSE currentHistoryIndex - LastEvent.after

\* How far the effects are from having nothing left to run
EffectsLeft == CASE pending = "both" -> 2 [] pending = "norm" -> 1
                 [] OTHER -> IF saveDue THEN 1 ELSE 0

\* C36: between two events the effects push rows down at most once, and a
\* run of the effects that pushes nothing leaves less to run than before, so
\* the chain of effects ends
C36_EffectChainEnds ==
    /\ [](PushesSinceEvent <= 1)
    /\ [][(lastOp' = "Effects" /\ csvData' = csvData)
          => EffectsLeft' < EffectsLeft]_vars

\* The rows of an uploaded file were normalized and pushed down once, and
\* the effects that followed had nothing more to push
C36_Witness ==
    /\ SinceEvent("uploadComplete")
    /\ lastOp = "Effects"
    /\ Settled
    /\ PushesSinceEvent = 1
    /\ csvData = NormalizedUpload
    /\ Table(internalHeaders, internalData) = csvData

\* C37: when the last event gave the view a new canonical table while
\* isUpdatingRef was set, then once the flag is cleared and nothing is left
\* to run the headers and rows of the view are those of the canonical table
C37_ReplacementUnderFlagKept ==
    (/\ trail # << >>
     /\ Replaced(LastEvent)
     /\ LastEvent.arg.flag
     /\ Quiescent
     /\ ~isUpdatingRef)
    => Table(internalHeaders, internalData) = csvData

\* C38: a request that was started leaves the processing state when its call
\* completes, isProcessing being false after a result, after an empty or
\* missing result and after a failure, and a submission refused for a
\* missing key or a blank instruction does not enter the processing state
C38_ProcessingEnds ==
    /\ isProcessing ~> ~isProcessing
    /\ [][lastOp' \in {"aiResult", "aiFailure"} => ~isProcessing']_vars
    /\ [][(/\ nops' # nops
           /\ lastOp' \in {"processWithAI", "processWithAIRefused"}
           /\ LET arg == trail'[Len(trail')].arg
              IN  arg.apiKey = "" \/ Trim(arg.prompt) = << >>)
          => (~isProcessing' /\ aiClosure' = Null)]_vars

\* A submission with a key and a blank instruction was refused, and the
\* one after it was started and has completed
C38_Witness ==
    /\ Len(trail) = 2
    /\ trail[1].op = "processWithAIRefused"
    /\ trail[1].arg.apiKey # ""
    /\ LastEvent.op = "processWithAI"
    /\ lastOp = "aiFailure"
    /\ ~isProcessing

====
